---- MODULE Spec2Model ----
(***************************************************************************)
(* Model of evals/prompt/base.py: conversion between text prompts and chat *)
(* prompts.                                                                *)
(*                                                                         *)
(* A Python str is a sequence of one-character strings.  A Python value is *)
(* a record [type, v]: type "str" (v the characters), "list" (v the        *)
(* elements, themselves values), "dict" (v a function from keys to         *)
(* strings), "error" (a raised exception, v its name) or "none".           *)
(***************************************************************************)
EXTENDS Integers, Sequences, FiniteSets, TLC

VARIABLES raw_prompt, callee, pc, i, lines, prompts, result,
          chained, first_prompt, first_callee

vars == <<raw_prompt, callee, pc, i, lines, prompts, result,
          chained, first_prompt, first_callee>>

\* Largest number of elements of a list given as a prompt.
MaxLen == 2

----------------------------------------------------------------------------
\* Python values

Str(s) == [type |-> "str", v |-> s]

List(l) == [type |-> "list", v |-> l]

Dict(d) == [type |-> "dict", v |-> d]

Err(name) == [type |-> "error", v |-> <<name>>]

None == [type |-> "none", v |-> <<>>]

----------------------------------------------------------------------------
\* String literals of the source

s_system == <<"s","y","s","t","e","m">>

s_user == <<"u","s","e","r">>

s_assistant == <<"a","s","s","i","s","t","a","n","t">>

s_example_user == <<"e","x","a","m","p","l","e","_","u","s","e","r">>

s_example_assistant == <<"e","x","a","m","p","l","e","_","a","s","s","i","s","t","a","n","t">>

s_tool == <<"t","o","o","l">>

s_User == <<"U","s","e","r">>

s_Assistant == <<"A","s","s","i","s","t","a","n","t">>

s_Tool == <<"T","o","o","l">>

\* str.lstrip() removes the leading whitespace characters.
Whitespace == {" ", "\n", "\t", "\r"}

LowerCase == <<"a","b","c","d","e","f","g","h","i","j","k","l","m",
               "n","o","p","q","r","s","t","u","v","w","x","y","z">>

UpperCase == <<"A","B","C","D","E","F","G","H","I","J","K","L","M",
               "N","O","P","Q","R","S","T","U","V","W","X","Y","Z">>

upper(c) == IF \E k \in 1..26 : LowerCase[k] = c
            THEN UpperCase[CHOOSE k \in 1..26 : LowerCase[k] = c]
            ELSE c

lower(c) == IF \E k \in 1..26 : UpperCase[k] = c
            THEN LowerCase[CHOOSE k \in 1..26 : UpperCase[k] = c]
            ELSE c

\* str.capitalize(): first character upper-cased, the rest lower-cased.
capitalize(s) == [k \in 1..Len(s) |-> IF k = 1 THEN upper(s[k]) ELSE lower(s[k])]

RECURSIVE lstrip(_)
lstrip(s) == IF s # <<>> /\ Head(s) \in Whitespace THEN lstrip(Tail(s)) ELSE s

\* sep.join(ls)
RECURSIVE join(_, _)
join(sep, ls) == IF ls = <<>> THEN <<>>
                 ELSE IF Len(ls) = 1 THEN ls[1]
                 ELSE ls[1] \o sep \o join(sep, Tail(ls))

\* dict.get(key, default)
get(d, key, default) == IF key \in DOMAIN d THEN d[key] ELSE default

\* dict.get(key) is not None
has(d, key) == key \in DOMAIN d

----------------------------------------------------------------------------
\* chat_prompt_to_text_prompt

chat_to_prefixes ==
    (s_system :> <<>>) @@ (s_user :> s_User) @@ (s_assistant :> s_Assistant) @@
    (s_example_user :> s_User) @@ (s_example_assistant :> s_Assistant) @@
    (s_tool :> s_Tool)

is_chat_prompt_any(prompt) ==
    /\ prompt.type = "list"
    /\ \E k \in 1..Len(prompt.v) : prompt.v[k].type = "dict"

is_chat_prompt(prompt) ==
    /\ prompt.type = "list"
    /\ \A k \in 1..Len(prompt.v) : prompt.v[k].type = "dict"

is_single_system_message(prompt) ==
    Len(prompt.v) = 1 /\ prompt.v[1].v["role"] = s_system

\* len(prompt) == 1
is_single_message(prompt) == Len(prompt.v) = 1

role_prefix(role) == get(chat_to_prefixes, role, capitalize(role))

name_suffix(msg) ==
    IF has(msg, "name") THEN <<" ", "(">> \o msg["name"] \o <<")">> ELSE <<>>

receiver_suffix(msg) ==
    IF has(msg, "recipient")
    THEN <<" ", "-", ">", " ">> \o get(chat_to_prefixes, msg["recipient"], msg["recipient"])
    ELSE <<>>

separator(prefix) == IF prefix # <<>> THEN prefix \o <<":", " ">> ELSE prefix

render_line_receiver_first(msg) ==
    separator(role_prefix(msg["role"]) \o receiver_suffix(msg) \o name_suffix(msg))
        \o msg["content"]

\* The body of the loop: the line appended for one message.
render_line(msg) ==
    separator(role_prefix(msg["role"]) \o name_suffix(msg) \o receiver_suffix(msg))
        \o msg["content"]

\* The text built after the loop and returned.
render_text(ls) == lstrip(join(<<"\n">>, ls) \o s_Assistant \o <<":", " ">>)

----------------------------------------------------------------------------
\* _prepare_chat_prompt

tool_content_prefix(msg) ==
    IF has(msg, "name")
    THEN s_Tool \o <<" ", "(">> \o msg["name"] \o <<")", ":", " ">>
    ELSE <<>>

tool_message_keeps_keys(msg) ==
    [msg EXCEPT !["role"] = s_assistant,
                !["content"] = tool_content_prefix(msg) \o msg["content"]]

tool_message_keeps_role(msg) ==
    [role |-> msg["role"], content |-> tool_content_prefix(msg) \o msg["content"]]

tool_message(msg) ==
    [role |-> s_assistant, content |-> tool_content_prefix(msg) \o msg["content"]]

recipient_message_keeps_keys(msg) ==
    [msg EXCEPT !["content"] =
        <<"T", "o", " ">> \o msg["recipient"] \o <<":", " ">> \o msg["content"]]

recipient_message(msg) ==
    [role |-> s_assistant,
     content |-> <<"T", "o", " ">> \o msg["recipient"] \o <<":", " ">> \o msg["content"]]

\* The body of the loop: the element appended for one message.
prepare_message(elem) ==
    LET msg == elem.v IN
    IF msg["role"] = s_tool THEN Dict(tool_message(msg))
    ELSE IF msg["role"] = s_assistant
         THEN IF has(msg, "recipient") THEN Dict(recipient_message(msg)) ELSE elem
         ELSE elem

prepend(ps, elem) == <<elem>> \o ps

\* prompts.append(...)
append(ps, elem) == Append(ps, elem)

----------------------------------------------------------------------------
\* text_prompt_to_chat_prompt

text_to_chat_stripped(s) == List(<<Dict([role |-> s_system, content |-> lstrip(s)])>>)

text_to_chat(s) == List(<<Dict([role |-> s_system, content |-> s])>>)

----------------------------------------------------------------------------
\* Inputs

s_bot == <<"b","o","t">>

s_bob == <<"b","o","b">>

s_calc == <<"c","a","l","c">>

s_Hi == <<"H","i">>

s_Hello == <<"H","e","l","l","o">>

Roles == {s_system, s_user, s_assistant, s_tool, s_bot}

Names == {s_calc}

Recipients == {s_user, s_bob}

\* The messages prompts are made of: every role of the table and two unknown
\* ones, with and without name and recipient, recipients in and out of the table.
Messages ==
    {[role |-> r, content |-> s_Hi] : r \in Roles}
    \cup {[role |-> r, content |-> s_Hi, name |-> n] : r \in Roles, n \in Names}
    \cup {[role |-> r, content |-> s_Hi, recipient |-> t] : r \in Roles, t \in Recipients}
    \cup {[role |-> r, content |-> s_Hi, name |-> n, recipient |-> t] :
            r \in Roles, n \in Names, t \in Recipients}
    \cup {[role |-> s_assistant, content |-> s_Hello],
          [role |-> s_system, content |-> <<>>],
          [role |-> s_system, content |-> <<" ", "x">>],
          [role |-> s_example_user, content |-> s_Hi],
          [role |-> s_example_assistant, content |-> s_Hi, recipient |-> s_tool],
          [role |-> s_tool, content |-> <<"4">>, name |-> s_calc],
          [role |-> s_assistant, content |-> <<"h", "i">>, recipient |-> s_user],
          [role |-> s_user, content |-> <<"\n", "q">>, name |-> s_bob, recipient |-> s_system],
          [role |-> <<"a", "I">>, content |-> s_Hi, name |-> s_calc, recipient |-> s_user]}

Texts == {<<>>, s_Hi, <<" ", "x">>, <<"\n", " ", "H", "i", "\n">>}

RECURSIVE SeqsUpTo(_, _)
SeqsUpTo(S, n) ==
    IF n = 0 THEN {<<>>}
    ELSE LET shorter == SeqsUpTo(S, n - 1)
         IN shorter \cup {Append(q, x) : q \in {r \in shorter : Len(r) = n - 1}, x \in S}

ChatPrompts == {List(q) : q \in SeqsUpTo({Dict(m) : m \in Messages}, MaxLen)}

TextPrompts == {Str(s) : s \in Texts}

\* Lists that are not chat prompts: token strings, and a mapping mixed with a string.
OtherPrompts ==
    {List(<<Str(s_Hi), Str(s_Hello)>>),
     List(<<Dict([role |-> s_user, content |-> s_Hi]), Str(s_Hi)>>)}

Callees == {"CompletionPrompt", "ChatCompletionPrompt",
            "chat_prompt_to_text_prompt", "text_prompt_to_chat_prompt"}

----------------------------------------------------------------------------
\* The state machine

Init ==
    /\ raw_prompt = None
    /\ callee = "none"
    /\ pc = "idle"
    /\ i = 0
    /\ lines = <<>>
    /\ prompts = <<>>
    /\ result = None
    /\ chained = FALSE
    /\ first_prompt = None
    /\ first_callee = "none"

\* A caller constructs a Prompt object around p and asks for its rendering, or
\* calls one of the two conversion functions on p.
Enter(c, p) ==
    /\ callee' = c
    /\ raw_prompt' = p
    /\ pc' = c
    /\ UNCHANGED <<i, lines, prompts, result, chained, first_prompt, first_callee>>

Call ==
    /\ pc = "idle"
    /\ \E c \in Callees :
          \/ \E p \in ChatPrompts : Enter(c, p)
          \/ \E p \in TextPrompts : Enter(c, p)
          \/ \E p \in OtherPrompts : Enter(c, p)

\* CompletionPrompt.to_openai_create_prompt
CompletionPrompt_to_openai_create_prompt ==
    /\ pc = "CompletionPrompt"
    /\ IF is_chat_prompt(raw_prompt)
       THEN /\ pc' = "chat_prompt_to_text_prompt"
            /\ UNCHANGED result
       ELSE /\ pc' = "done"
            /\ result' = raw_prompt
    /\ UNCHANGED <<raw_prompt, callee, i, lines, prompts, chained, first_prompt, first_callee>>

\* chat_prompt_to_text_prompt: the assertion, the single-message return and
\* the start of the loop.
chat_prompt_to_text_prompt ==
    /\ pc = "chat_prompt_to_text_prompt"
    /\ IF ~is_chat_prompt(raw_prompt)
       THEN /\ result' = Err("AssertionError")
            /\ pc' = "done"
            /\ UNCHANGED <<i, lines>>
       ELSE IF is_single_message(raw_prompt)
       THEN /\ result' = Str(raw_prompt.v[1].v["content"])
            /\ pc' = "done"
            /\ UNCHANGED <<i, lines>>
       ELSE /\ lines' = <<>>
            /\ i' = 1
            /\ pc' = "render_loop"
            /\ UNCHANGED result
    /\ UNCHANGED <<raw_prompt, callee, prompts, chained, first_prompt, first_callee>>

\* One iteration of "for msg in prompt" of chat_prompt_to_text_prompt.  An
\* element that is not a mapping has no get method.
render_loop ==
    /\ pc = "render_loop"
    /\ i <= Len(raw_prompt.v)
    /\ IF raw_prompt.v[i].type = "dict"
       THEN /\ lines' = Append(lines, render_line(raw_prompt.v[i].v))
            /\ i' = i + 1
            /\ UNCHANGED <<pc, result>>
       ELSE /\ result' = Err("AttributeError")
            /\ pc' = "done"
            /\ UNCHANGED <<i, lines>>
    /\ UNCHANGED <<raw_prompt, callee, prompts, chained, first_prompt, first_callee>>

\* After the loop: join, append the cue, strip, return.
render_return ==
    /\ pc = "render_loop"
    /\ i > Len(raw_prompt.v)
    /\ result' = Str(render_text(lines))
    /\ pc' = "done"
    /\ UNCHANGED <<raw_prompt, callee, i, lines, prompts, chained, first_prompt, first_callee>>

\* ChatCompletionPrompt.to_openai_create_prompt
ChatCompletionPrompt_to_openai_create_prompt ==
    /\ pc = "ChatCompletionPrompt"
    /\ IF is_chat_prompt(raw_prompt)
       THEN /\ prompts' = <<>>
            /\ i' = 1
            /\ pc' = "prepare_loop"
       ELSE /\ pc' = "text_prompt_to_chat_prompt"
            /\ UNCHANGED <<prompts, i>>
    /\ UNCHANGED <<raw_prompt, callee, lines, result, chained, first_prompt, first_callee>>

\* One iteration of "for msg in prompt" of _prepare_chat_prompt.  An element
\* that is not a mapping cannot be indexed by "role".
prepare_loop ==
    /\ pc = "prepare_loop"
    /\ i <= Len(raw_prompt.v)
    /\ IF raw_prompt.v[i].type = "dict"
       THEN /\ prompts' = append(prompts, prepare_message(raw_prompt.v[i]))
            /\ i' = i + 1
            /\ UNCHANGED <<pc, result>>
       ELSE /\ result' = Err("TypeError")
            /\ pc' = "done"
            /\ UNCHANGED <<i, prompts>>
    /\ UNCHANGED <<raw_prompt, callee, lines, chained, first_prompt, first_callee>>

prepare_return ==
    /\ pc = "prepare_loop"
    /\ i > Len(raw_prompt.v)
    /\ result' = List(prompts)
    /\ pc' = "done"
    /\ UNCHANGED <<raw_prompt, callee, i, lines, prompts, chained, first_prompt, first_callee>>

text_prompt_to_chat_prompt ==
    /\ pc = "text_prompt_to_chat_prompt"
    /\ IF raw_prompt.type = "str"
       THEN result' = text_to_chat(raw_prompt.v)
       ELSE result' = Err("AssertionError")
    /\ pc' = "done"
    /\ UNCHANGED <<raw_prompt, callee, i, lines, prompts, chained, first_prompt, first_callee>>

\* The caller passes the chat prompt it got back to a second conversion.
Chain ==
    /\ pc = "done"
    /\ ~chained
    /\ callee \in {"ChatCompletionPrompt", "text_prompt_to_chat_prompt"}
    /\ result.type = "list"
    /\ \E c \in {"ChatCompletionPrompt", "chat_prompt_to_text_prompt"} :
          /\ callee' = c
          /\ pc' = c
    /\ first_prompt' = raw_prompt
    /\ first_callee' = callee
    /\ raw_prompt' = result
    /\ chained' = TRUE
    /\ i' = 0
    /\ lines' = <<>>
    /\ prompts' = <<>>
    /\ result' = None

Next ==
    \/ Call
    \/ CompletionPrompt_to_openai_create_prompt
    \/ chat_prompt_to_text_prompt
    \/ render_loop
    \/ render_return
    \/ ChatCompletionPrompt_to_openai_create_prompt
    \/ prepare_loop
    \/ prepare_return
    \/ text_prompt_to_chat_prompt
    \/ Chain

Spec == Init /\ [][Next]_vars

----------------------------------------------------------------------------
\* Vocabulary of the properties

IsChatList(p) == p.type = "list" /\ \A k \in 1..Len(p.v) : p.v[k].type = "dict"

TextRendering == callee \in {"chat_prompt_to_text_prompt", "CompletionPrompt"}

ChatRendering == callee = "ChatCompletionPrompt"

RECURSIVE EachOnItsOwnLine(_)
EachOnItsOwnLine(ls) ==
    IF ls = <<>> THEN <<>> ELSE Head(ls) \o <<"\n">> \o EachOnItsOwnLine(Tail(ls))

Cue == <<"A","s","s","i","s","t","a","n","t",":"," ">>

HiHello == List(<<Dict([role |-> s_user, content |-> s_Hi]),
                  Dict([role |-> s_assistant, content |-> s_Hello])>>)

\* C1: a chat prompt of two or more messages is rendered as its message lines,
\* each followed by a newline, followed by "Assistant: ", left-stripped; the
\* prompt [user "Hi", assistant "Hello"] gives "User: Hi\nAssistant: Hello\nAssistant: ".
C1_EachLineAndCueOnOwnLine ==
    (pc = "done" /\ TextRendering /\ IsChatList(raw_prompt) /\ Len(raw_prompt.v) >= 2)
    => /\ result = Str(lstrip(EachOnItsOwnLine(lines) \o Cue))
       /\ raw_prompt = HiHello =>
            result = Str(<<"U","s","e","r",":"," ","H","i","\n",
                           "A","s","s","i","s","t","a","n","t",":"," ",
                           "H","e","l","l","o","\n">> \o Cue)

\* C2: a chat prompt of exactly one message is rendered as that message's
\* content, whatever its role, name and recipient: no prefix, no cue, nothing
\* stripped.
C2_SingleMessageVerbatim ==
    (pc = "done" /\ TextRendering /\ IsChatList(raw_prompt) /\ Len(raw_prompt.v) = 1)
    => result = Str(raw_prompt.v[1].v["content"])

C2_Witness ==
    /\ pc = "done"
    /\ TextRendering
    /\ IsChatList(raw_prompt)
    /\ raw_prompt = List(<<Dict([role |-> s_user, content |-> <<"\n", "q">>,
                                 name |-> s_bob, recipient |-> s_system])>>)
    /\ result = Str(<<"\n", "q">>)

\* C3: rendering as text the chat prompt made from a string gives back the
\* string, also when it is empty or starts with whitespace or a newline.
C3_RoundTrip ==
    (/\ pc = "done"
     /\ chained
     /\ first_callee \in {"text_prompt_to_chat_prompt", "ChatCompletionPrompt"}
     /\ first_prompt.type = "str"
     /\ callee = "chat_prompt_to_text_prompt")
    => result = first_prompt

C3_Witness ==
    /\ pc = "done"
    /\ chained
    /\ first_callee = "text_prompt_to_chat_prompt"
    /\ callee = "chat_prompt_to_text_prompt"
    /\ first_prompt = Str(<<"\n", " ", "H", "i", "\n">>)
    /\ raw_prompt = List(<<Dict([role |-> s_system, content |-> <<"\n", " ", "H", "i", "\n">>])>>)
    /\ result = first_prompt

\* C4: rendering the empty chat prompt as text fails; no string is returned,
\* neither by chat_prompt_to_text_prompt nor by CompletionPrompt.
C4_EmptyPromptFails ==
    (pc = "done" /\ TextRendering /\ raw_prompt = List(<<>>))
    => result.type = "error"

\* C5 as claimed: CompletionPrompt fails on a raw prompt that is neither a
\* string nor a chat prompt, and never returns it.
C5_UnclassifiedFails ==
    (pc = "done" /\ callee = "CompletionPrompt"
        /\ raw_prompt.type # "str" /\ ~IsChatList(raw_prompt))
    => result.type = "error"

\* C5 as amended: CompletionPrompt returns every raw prompt that is not a chat
\* prompt unchanged, a list mixing mappings with non-mappings included, and
\* raises nothing.
C5_NonChatReturnedUnchanged ==
    (pc = "done" /\ callee = "CompletionPrompt" /\ ~IsChatList(raw_prompt))
    => result = raw_prompt

C5_Witness ==
    /\ pc = "done"
    /\ callee = "CompletionPrompt"
    /\ raw_prompt = List(<<Dict([role |-> s_user, content |-> s_Hi]), Str(s_Hi)>>)
    /\ result = raw_prompt

\* C6: the normalizer turns a message of role "tool" into a message with the
\* two keys role = "assistant" and content, the content prefixed with
\* "Tool (<name>): " when name is present and unprefixed otherwise; name and
\* recipient are gone.
C6_ToolMessage ==
    (pc \in {"prepare_loop", "done"} /\ ChatRendering /\ IsChatList(raw_prompt))
    => \A k \in 1..Len(prompts) :
         LET msg == raw_prompt.v[k].v
             out == prompts[k].v
         IN msg["role"] = s_tool =>
              /\ prompts[k].type = "dict"
              /\ DOMAIN out = {"role", "content"}
              /\ out["role"] = <<"a","s","s","i","s","t","a","n","t">>
              /\ out["content"] =
                   IF "name" \in DOMAIN msg
                   THEN <<"T","o","o","l"," ","(">> \o msg["name"] \o <<")",":"," ">>
                            \o msg["content"]
                   ELSE msg["content"]
              /\ pc = "done" => result.v[k] = prompts[k]

C6_Witness ==
    /\ pc = "done"
    /\ ChatRendering
    /\ IsChatList(raw_prompt)
    /\ Len(raw_prompt.v) = 2
    /\ raw_prompt.v[1] = Dict([role |-> s_tool, content |-> s_Hi,
                               name |-> s_calc, recipient |-> s_bob])
    /\ raw_prompt.v[2] = Dict([role |-> s_tool, content |-> s_Hi])
    /\ result.type = "list"
    /\ result.v[1] = Dict([role |-> s_assistant,
                           content |-> <<"T","o","o","l"," ","(","c","a","l","c",")",":"," ","H","i">>])
    /\ result.v[2] = Dict([role |-> s_assistant, content |-> s_Hi])

\* C7: the normalizer turns a message of role "assistant" with a recipient
\* into a message with the two keys role = "assistant" and
\* content = "To <recipient>: <content>"; recipient and name are gone.
C7_RecipientMessage ==
    (pc \in {"prepare_loop", "done"} /\ ChatRendering /\ IsChatList(raw_prompt))
    => \A k \in 1..Len(prompts) :
         LET msg == raw_prompt.v[k].v
             out == prompts[k].v
         IN (msg["role"] = s_assistant /\ "recipient" \in DOMAIN msg) =>
              /\ prompts[k].type = "dict"
              /\ DOMAIN out = {"role", "content"}
              /\ out["role"] = <<"a","s","s","i","s","t","a","n","t">>
              /\ out["content"] =
                   <<"T","o"," ">> \o msg["recipient"] \o <<":"," ">> \o msg["content"]
              /\ pc = "done" => result.v[k] = prompts[k]

C7_Witness ==
    /\ pc = "done"
    /\ ChatRendering
    /\ IsChatList(raw_prompt)
    /\ Len(raw_prompt.v) = 1
    /\ raw_prompt.v[1] = Dict([role |-> s_assistant, content |-> s_Hi,
                               name |-> s_calc, recipient |-> s_bob])
    /\ result = List(<<Dict([role |-> s_assistant,
                             content |-> <<"T","o"," ","b","o","b",":"," ","H","i">>])>>)

PassedThrough(msg) ==
    /\ msg["role"] # s_tool
    /\ ~(msg["role"] = s_assistant /\ "recipient" \in DOMAIN msg)

IsSuffix(s, t) ==
    /\ Len(s) <= Len(t)
    /\ SubSeq(t, Len(t) - Len(s) + 1, Len(t)) = s

\* C8: ChatCompletionPrompt returns, for a chat prompt, a list of the same
\* length whose k-th element comes from the k-th message, and every message
\* that is neither a tool message nor an assistant message with a recipient
\* is at its position unchanged, all keys intact.
C8_OrderAndPassThrough ==
    (pc = "done" /\ ChatRendering /\ IsChatList(raw_prompt))
    => /\ result.type = "list"
       /\ Len(result.v) = Len(raw_prompt.v)
       /\ \A k \in 1..Len(raw_prompt.v) :
            /\ result.v[k].type = "dict"
            /\ IsSuffix(raw_prompt.v[k].v["content"], result.v[k].v["content"])
            /\ PassedThrough(raw_prompt.v[k].v) => result.v[k] = raw_prompt.v[k]

C8_Witness ==
    /\ pc = "done"
    /\ ChatRendering
    /\ IsChatList(raw_prompt)
    /\ ~chained
    /\ Len(raw_prompt.v) = 2
    /\ raw_prompt.v[1] = Dict([role |-> s_user, content |-> <<"\n", "q">>,
                               name |-> s_bob, recipient |-> s_system])
    /\ raw_prompt.v[2] = Dict([role |-> s_tool, content |-> <<"4">>, name |-> s_calc])
    /\ result.v[1] = raw_prompt.v[1]
    /\ result.v[2].v["content"] = <<"T","o","o","l"," ","(","c","a","l","c",")",":"," ","4">>

\* The label of a role, as the claim states the table.
Label(role) ==
    CASE role = <<"s","y","s","t","e","m">> -> <<>>
      [] role \in {<<"u","s","e","r">>, s_example_user} -> <<"U","s","e","r">>
      [] role \in {<<"a","s","s","i","s","t","a","n","t">>, s_example_assistant}
            -> <<"A","s","s","i","s","t","a","n","t">>
      [] role = <<"t","o","o","l">> -> <<"T","o","o","l">>
      [] role = <<"b","o","t">> -> <<"B","o","t">>
      [] role = <<"a","I">> -> <<"A","i">>

InTable(role) ==
    role \in {s_system, s_user, s_assistant, s_example_user, s_example_assistant, s_tool}

ExpectedLine(msg) ==
    LET label == Label(msg["role"])
        named == IF "name" \in DOMAIN msg
                 THEN label \o <<" ","(">> \o msg["name"] \o <<")">>
                 ELSE label
        addressed == IF "recipient" \in DOMAIN msg
                     THEN named \o <<" ","-",">"," ">> \o
                            (IF InTable(msg["recipient"]) THEN Label(msg["recipient"])
                             ELSE msg["recipient"])
                     ELSE named
        prefix == IF addressed # <<>> THEN addressed \o <<":"," ">> ELSE addressed
    IN prefix \o msg["content"]

\* C9: in a chat prompt of two or more messages the line of each message is
\* prefix + content, the prefix being the label of the role, then " (<name>)",
\* then " -> <mapped recipient>", then ": " iff non-empty so far; a system
\* message without name and recipient is its bare content.
C9_LinePrefix ==
    (pc \in {"render_loop", "done"} /\ TextRendering
        /\ IsChatList(raw_prompt) /\ Len(raw_prompt.v) >= 2)
    => \A k \in 1..Len(lines) :
         LET msg == raw_prompt.v[k].v IN
         /\ lines[k] = ExpectedLine(msg)
         /\ (msg["role"] = s_system /\ DOMAIN msg = {"role", "content"})
               => lines[k] = msg["content"]

C9_Witness ==
    /\ pc = "done"
    /\ TextRendering
    /\ IsChatList(raw_prompt)
    /\ Len(raw_prompt.v) = 2
    /\ Len(lines) = 2
    /\ raw_prompt.v[1] = Dict([role |-> <<"a","I">>, content |-> s_Hi,
                               name |-> s_calc, recipient |-> s_user])
    /\ raw_prompt.v[2] = Dict([role |-> s_system, content |-> <<" ", "x">>])
    /\ lines[1] = <<"A","i"," ","(","c","a","l","c",")"," ","-",">"," ",
                    "U","s","e","r",":"," ","H","i">>
    /\ lines[2] = <<" ", "x">>

\* C10: the output of the normalizer has no message of role "tool" and no
\* assistant message with a recipient, and normalizing it again changes nothing.
C10_NormalFormIdempotent ==
    /\ (pc = "done" /\ ChatRendering /\ IsChatList(raw_prompt))
         => \A k \in 1..Len(result.v) :
               /\ result.v[k].v["role"] # s_tool
               /\ ~(result.v[k].v["role"] = s_assistant
                      /\ "recipient" \in DOMAIN result.v[k].v)
    /\ (pc = "done" /\ chained /\ ChatRendering
          /\ first_callee = "ChatCompletionPrompt" /\ IsChatList(first_prompt))
         => result = raw_prompt

C10_Witness ==
    /\ pc = "done"
    /\ chained
    /\ ChatRendering
    /\ first_callee = "ChatCompletionPrompt"
    /\ first_prompt = List(<<Dict([role |-> s_tool, content |-> <<"4">>, name |-> s_calc]),
                             Dict([role |-> s_assistant, content |-> <<"h","i">>,
                                   recipient |-> s_user])>>)
    /\ raw_prompt = List(<<Dict([role |-> s_assistant,
                                 content |-> <<"T","o","o","l"," ","(","c","a","l","c",")",":"," ","4">>]),
                           Dict([role |-> s_assistant,
                                 content |-> <<"T","o"," ","u","s","e","r",":"," ","h","i">>])>>)
    /\ result = raw_prompt

====
